---- MODULE Spec2Model ----
(***************************************************************************)
(* Model of the InfoSense admin console front end: the Setup page's login  *)
(* handshake, the shared axios instance `api` with its request and         *)
(* response interceptors, AuthService, App's authentication check and      *)
(* routes, and the browser's localStorage.                                 *)
(*                                                                         *)
(* Strings are sequences of one-character strings.  localStorage is a      *)
(* function from the keys that are present to their values.  The backend   *)
(* is the environment: it answers every request in flight with any of the  *)
(* outcomes the front end distinguishes.                                   *)
(***************************************************************************)
EXTENDS Integers, Sequences, FiniteSets, TLC

VARIABLES
    store,            \* window.localStorage
    isAuthenticated,  \* App: useState(false)
    path,             \* the router's location
    checkAuth,        \* App.checkAuth: "pending" while its fetch is in flight
    step,             \* Setup: useState("api")
    formData,         \* Setup: the five form fields
    loading,          \* Setup: useState(false)
    phoneCodeHash,    \* Setup: useState("")
    inflight,         \* requests sent through `api`, oldest first
    timers,           \* pending setTimeout(() => navigate("/dashboard"), 2000)
    reload,           \* "expired" once a 401 assigned window.location.href,
                      \* "logout" once Sidebar.handleLogout did
    window,           \* events the old page can still run before that load
    toast,            \* the kind of the last toast raised: success, error or info
    expired,          \* the tokens a 401 removed from the store, until issued again
    latest,           \* history: the handshake id of the latest start call of this
                      \* Setup that was answered "code_sent", and how many of its
                      \* start requests sent before that call are still awaited
    call              \* a function called on its own: its name, argument and result

pageVars == <<store, isAuthenticated, path, checkAuth, step, formData, loading,
              phoneCodeHash, inflight, timers, reload, window, toast, expired,
              latest>>
vars == <<pageVars, call>>

setupVars == <<step, formData, loading, phoneCodeHash, latest>>
appVars == <<isAuthenticated, path, checkAuth>>

-----------------------------------------------------------------------------
(* Bounds *)

\* calls of a function in succession, each on the result of the one before
MaxCalls == 2
\* calls of a debounced function in one run
MaxBurst == 3
\* the clock's last tick in a run of a debounced function
MaxTime == 5
\* digits after the "+" of the longest phone number tried
MaxDigits == 16
\* characters of the longest API hash tried
MaxHash == 33
\* characters after the "@" of the longest channel username tried
MaxName == 34
\* characters other than whitespace of the longest keyword tried
MaxKeyword == 101

\* requests in flight plus pending timers
MaxPending == 2
\* events the page still runs between the assignment of window.location.href
\* and the load of the new page
MaxWindow == 1
\* distinct session tokens the backend hands out
NumTokens == 1

-----------------------------------------------------------------------------
(* Strings *)

Rep(c, n) == [i \in 1..n |-> c]

Digits == {"0", "1", "2", "3", "4", "5", "6", "7", "8", "9"}
HexLower == Digits \cup {"a", "b", "c", "d", "e", "f"}

\* the index of the first occurrence of p in s, 0 when there is none
IndexOf(s, p) ==
    LET hits == {i \in 1..(Len(s) - Len(p) + 1) : SubSeq(s, i, i + Len(p) - 1) = p}
    IN  IF hits = {} THEN 0 ELSE CHOOSE i \in hits : \A j \in hits : i <= j

\* s.replace(p, ""): the first occurrence of p removed
ReplaceFirst(s, p) ==
    LET i == IndexOf(s, p)
    IN  IF i = 0 THEN s ELSE SubSeq(s, 1, i - 1) \o SubSeq(s, i + Len(p), Len(s))

BearerPrefix == <<"B", "e", "a", "r", "e", "r", " ">>

-----------------------------------------------------------------------------
(* utils/validators.ts *)

\* Regular expressions of the shape /^ a1 a2 ... $/: a sequence of atoms, each
\* a character class with the least and the most repetitions (Unbounded for
\* `+`).  Without the m flag `^` and `$` are the two ends of the input.
Unbounded == 0 - 1
Atom(cls, lo, hi) == [cls |-> cls, lo |-> lo, hi |-> hi]

Lower == {"a", "b", "c", "d", "e", "f", "g", "h", "i", "j", "k", "l", "m",
          "n", "o", "p", "q", "r", "s", "t", "u", "v", "w", "x", "y", "z"}
Upper == {"A", "B", "C", "D", "E", "F", "G", "H", "I", "J", "K", "L", "M",
          "N", "O", "P", "Q", "R", "S", "T", "U", "V", "W", "X", "Y", "Z"}

\* the atoms from the k-th on match s from position p to its end
RECURSIVE MatchFrom(_, _, _, _)
MatchFrom(re, k, s, p) ==
    IF k > Len(re) THEN p = Len(s) + 1
    ELSE LET left == Len(s) - p + 1
             most == IF re[k].hi = Unbounded \/ re[k].hi > left THEN left ELSE re[k].hi
         IN  \E n \in re[k].lo..most :
                /\ \A j \in p..(p + n - 1) : s[j] \in re[k].cls
                /\ MatchFrom(re, k + 1, s, p + n)

\* RegExp.prototype.test for an expression anchored at both ends
test(re, s) == MatchFrom(re, 1, s, 1)

\* /^\+[1-9]\d{10,14}$/ without the upper limit: /^\+[1-9]\d{10,}$/
phoneRegex_NoUpperLimit ==
    <<Atom({"+"}, 1, 1), Atom(Digits \ {"0"}, 1, 1), Atom(Digits, 10, Unbounded)>>

\* /^\+[1-9]\d{10,14}$/
phoneRegex == <<Atom({"+"}, 1, 1), Atom(Digits \ {"0"}, 1, 1), Atom(Digits, 10, 14)>>

validatePhoneNumber(phone) == test(phoneRegex, phone)

\* /^@[a-zA-Z0-9_]{5,32}$/ with four characters allowed: {4,32}
usernameRegex_FourAllowed ==
    <<Atom({"@"}, 1, 1), Atom(Lower \cup Upper \cup Digits \cup {"_"}, 4, 32)>>

\* /^@[a-zA-Z0-9_]{5,32}$/
usernameRegex == <<Atom({"@"}, 1, 1), Atom(Lower \cup Upper \cup Digits \cup {"_"}, 5, 32)>>

validateChannelUsername(username) == test(usernameRegex, username)

\* the characters String.prototype.trim removes, as far as the inputs use them
Whitespace == {" ", "\t", "\n", "\r"}

\* keyword.trim()
trim(s) ==
    LET inked == {i \in 1..Len(s) : s[i] \notin Whitespace}
    IN  IF inked = {} THEN <<>>
        ELSE SubSeq(s, CHOOSE i \in inked : \A j \in inked : i <= j,
                       CHOOSE i \in inked : \A j \in inked : i >= j)

\* the length test on the keyword as typed: keyword.length
validateKeyword_NoTrim(keyword) == Len(keyword) >= 1 /\ Len(keyword) <= 100

\* keyword.trim().length >= 1 && keyword.trim().length <= 100
validateKeyword(keyword) == Len(trim(keyword)) >= 1 /\ Len(trim(keyword)) <= 100

\* /^\d+$/
apiIdRegex == <<Atom(Digits, 1, Unbounded)>>

\* /^[a-f0-9]{32}$/ with the capitals allowed: /^[a-fA-F0-9]{32}$/
apiHashRegex_AnyCase ==
    <<Atom(HexLower \cup {"A", "B", "C", "D", "E", "F"}, 32, 32)>>

\* /^[a-f0-9]{32}$/
apiHashRegex == <<Atom(HexLower, 32, 32)>>

\* apiIdRegex.test(apiId) && apiHashRegex.test(apiHash)
validateApiCredentials(apiId, apiHash) ==
    test(apiIdRegex, apiId) /\ test(apiHashRegex, apiHash)

-----------------------------------------------------------------------------
(* localStorage *)

hasItem(st, k) == k \in DOMAIN st
setItem(st, k, v) == [x \in DOMAIN st \cup {k} |-> IF x = k THEN v ELSE st[x]]
removeItem(st, k) == [x \in DOMAIN st \ {k} |-> st[x]]

\* a stored value that is truthy: present and not the empty string
truthyItem(st, k) == hasItem(st, k) /\ st[k] /= <<>>

-----------------------------------------------------------------------------
(* services/api.ts: the shared axios instance and its interceptors *)

\* the header set to the token itself, without the "Bearer " in front
requestInterceptor_NoPrefix(st) ==
    IF truthyItem(st, "auth_token") THEN st["auth_token"] ELSE <<>>

\* api.interceptors.request: the Authorization header, <<>> when none is set
requestInterceptor(st) ==
    IF truthyItem(st, "auth_token") THEN BearerPrefix \o st["auth_token"] ELSE <<>>

\* the 401 branch without its first removeItem
responseErrorStore_KeepsToken(st, o) ==
    IF o.status = 401
    THEN removeItem(removeItem(st, "telegram_api_id"), "telegram_api_hash")
    ELSE st

\* api.interceptors.response, error handler: localStorage afterwards
responseErrorStore(st, o) ==
    IF o.status = 401
    THEN removeItem(removeItem(removeItem(st, "auth_token"), "telegram_api_id"),
                    "telegram_api_hash")
    ELSE st

\* api.interceptors.response, error handler: window.location.href = "/setup"
responseErrorReload(o) == o.status = 401

\* api.interceptors.response, error handler: the toasts it raises, in order
\* (status 0 stands for an error without a response)
responseErrorToast(o) ==
    CASE o.status = 0   -> <<"Network error. Please check your connection.">>
      [] o.status = 401 -> <<>>
      [] o.status = 403 -> <<"Access forbidden">>
      [] o.status = 404 -> <<"Resource not found">>
      [] o.status = 422 -> IF o.hasErrors THEN o.errors
                           ELSE IF o.detail /= "" THEN <<o.detail>>
                           ELSE <<"Validation error">>
      [] o.status = 429 -> <<"Too many requests. Please wait.">>
      [] o.status = 500 -> <<"Server error. Please try again later.">>
      [] OTHER          -> IF o.detail /= "" THEN <<o.detail>>
                           ELSE <<"An unexpected error occurred">>

\* the switch without its case 404
responseErrorCase_No404(o) ==
    CASE o.status = 0   -> "else"
      [] o.status = 401 -> "case 401"
      [] o.status = 403 -> "case 403"
      [] o.status = 422 -> "case 422"
      [] o.status = 429 -> "case 429"
      [] o.status = 500 -> "case 500"
      [] OTHER          -> "default"

\* api.interceptors.response, error handler: the branch taken ("else" is the
\* branch of an error without a response)
responseErrorCase(o) ==
    CASE o.status = 0   -> "else"
      [] o.status = 401 -> "case 401"
      [] o.status = 403 -> "case 403"
      [] o.status = 404 -> "case 404"
      [] o.status = 422 -> "case 422"
      [] o.status = 429 -> "case 429"
      [] o.status = 500 -> "case 500"
      [] OTHER          -> "default"

\* the 401 branch ending with `return response` in place of `break`
responseErrorSettles_Resolves401(o) ==
    IF responseErrorCase(o) = "case 401" THEN "resolved" ELSE "rejected"

\* api.interceptors.response, error handler: how the promise it returns
\* settles.  Every branch of the switch ends with `break` and the else branch
\* falls through, so all reach `return Promise.reject(error)`.
responseErrorSettles(o) ==
    CASE responseErrorCase(o) \in {"case 401", "case 403", "case 404", "case 422",
                                   "case 429", "case 500", "default"} -> "rejected"
      [] responseErrorCase(o) = "else" -> "rejected"

\* api.interceptors.response, error handler: the kind of the last toast on
\* the screen afterwards (every status but 401 raises toast.error)
responseErrorKind(o, t) == IF o.status = 401 THEN t ELSE "error"

-----------------------------------------------------------------------------
(* What the backend can answer *)

Start == "/auth/telegram/start"
Verify == "/auth/telegram/verify"
TwoFA == "/auth/telegram/2fa"
Logout == "/auth/logout"
DomainEndpoints == {"/channels"}

Statuses == {"code_sent", "authenticated", "2fa_required"}
Hashes == {"h1", "h2"}
UserIds == {0, 7}

\* error statuses; 0 is a request that got no response
ErrorStatuses == {0, 400, 401, 429, 500}

\* a failure as the pages and services see it: the status alone decides what
\* they do (the body's detail and errors only word the toasts)
Failures == {[ok |-> FALSE, status |-> s] : s \in ErrorStatuses}

\* a failure with its body, as the response interceptor words its toasts:
\* data.detail ("" when falsy) and data.errors, each `${err.field}: ${err.message}`
\* (hasErrors: the array is present, and so truthy even when empty)
FailureBodies ==
    {b \in [ok : {FALSE}, status : ErrorStatuses \cup {403, 404, 418, 422, 502, 503},
            detail : {"", "Flood wait"}, hasErrors : BOOLEAN,
            errors : {<<>>, <<"code: invalid">>,
                      <<"phone_number: invalid", "code: invalid">>}] :
        ~b.hasErrors => b.errors = <<>>}

\* the session token number n
Tok(n) == <<"t", ToString(n)>>
Tokens == {Tok(n) : n \in 1..NumTokens}

\* a 2xx answer of a handshake endpoint: the body's fields and the
\* Authorization response header (<<>> when absent)
Successes(tokens) ==
    {[ok |-> TRUE, status |-> s, requires_2fa |-> f, phone_code_hash |-> h,
      user_id |-> u, authorization |-> a] :
        s \in Statuses, f \in BOOLEAN, h \in Hashes, u \in UserIds,
        a \in {<<>>} \cup {BearerPrefix \o t : t \in tokens}}

\* the fields each caller reads; the others are fixed to keep the answers few
StartAnswers ==
    {o \in Successes({}) : o.user_id = 0 /\ (o.status /= "code_sent" => o.phone_code_hash = "h1")}
    \cup Failures
SetupVerifyAnswers ==
    {o \in Successes({}) : o.user_id = 0 /\ o.phone_code_hash = "h1"} \cup Failures
ServiceVerifyAnswers ==
    {o \in Successes(Tokens) : o.phone_code_hash = "h1" /\ ~o.requires_2fa}
    \cup Failures

-----------------------------------------------------------------------------
(* App.tsx *)

\* <Routes>: the location shown for a requested one
Routes(p, auth) ==
    CASE p = "/setup" -> IF auth THEN "/dashboard" ELSE "/setup"
      [] p = "/"      -> IF auth THEN "/dashboard" ELSE "/setup"
      [] OTHER        -> IF auth THEN p ELSE "/setup"

SetupMounted == path = "/setup" /\ ~isAuthenticated

\* Setup's useState initial values
InitialFormData ==
    [apiId |-> <<>>, apiHash |-> <<>>, phoneNumber |-> <<>>, code |-> <<>>,
     password |-> <<>>]

\* no start call of this Setup was answered "code_sent"
NoStart == [hash |-> "", older |-> 0]

SetupFresh ==
    /\ step' = "api"
    /\ formData' = InitialFormData
    /\ loading' = FALSE
    /\ phoneCodeHash' = ""
    /\ latest' = NoStart

\* requests whose Setup instance is gone: their continuations set no state
Orphaned(reqs) ==
    [i \in DOMAIN reqs |->
        IF reqs[i].caller = "Setup" THEN [reqs[i] EXCEPT !.caller = "Unmounted"]
        ELSE reqs[i]]

\* no function is called on its own
NoCall == [op |-> "none"]

InitPage ==
    /\ store = [k \in {} |-> <<>>]
    /\ isAuthenticated = FALSE
    /\ path = "/setup"
    /\ checkAuth = "pending"
    /\ step = "api"
    /\ formData = InitialFormData
    /\ loading = FALSE
    /\ phoneCodeHash = ""
    /\ latest = NoStart
    /\ inflight = <<>>
    /\ timers = 0
    /\ reload = "none"
    /\ window = 0
    /\ toast = "none"
    /\ expired = {}

Init == InitPage /\ call = NoCall

-----------------------------------------------------------------------------
(* pages/Setup.tsx *)

\* what the operator types into a field
FieldValues ==
    [apiId |-> {<<"1", "2", "3", "4", "5", "6", "7", "8">>},
     apiHash |-> {Rep("a", 32), <<"z", "z">>},
     phoneNumber |-> {<<"8", "2", "1", "0", "1", "2", "3", "4", "5", "6", "7", "8">>,
                      <<"8", "2", "a">>},
     code |-> {<<"1", "2", "3", "4", "5">>},
     password |-> {<<"p", "w">>}]

\* the content of field f when its form is submitted: what the operator typed
\* (onChange: setFormData({ ...formData, [f]: e.target.value }))
Typed(f) == FieldValues[f]

\* an event of the running page: while a page load is pending it uses up one
\* of the events left
Tick ==
    /\ reload /= "none" => window > 0
    /\ window' = IF reload /= "none" THEN window - 1 ELSE window

\* the request as it leaves the request interceptor
Request(ep, caller) == [ep |-> ep, auth |-> requestInterceptor(store), caller |-> caller]

\* the answered request sent once more: an automatic retry
Remove_Resends(seq, i) ==
    SubSeq(seq, 1, i - 1) \o SubSeq(seq, i + 1, Len(seq)) \o <<seq[i]>>

\* the requests still awaited once the one at position i is answered
Remove(seq, i) == SubSeq(seq, 1, i - 1) \o SubSeq(seq, i + 1, Len(seq))

CanSend == Len(inflight) + timers < MaxPending

\* the token a 401 removes from the store
Expires(o) ==
    IF ~o.ok /\ o.status = 401 /\ hasItem(store, "auth_token")
    THEN {store["auth_token"]} ELSE {}

\* the token the backend hands out with an answer: a session it starts anew
Issues(o) ==
    IF o.ok /\ "authorization" \in DOMAIN o /\ o.authorization /= <<>>
    THEN {ReplaceFirst(o.authorization, BearerPrefix)} ELSE {}

\* the response interceptor's part of every answer
Intercepted(o) ==
    /\ reload /= "none" => window > 0
    /\ reload' = IF ~o.ok /\ responseErrorReload(o) THEN "expired" ELSE reload
    /\ window' = IF reload /= "none" THEN window - 1
                 ELSE IF ~o.ok /\ responseErrorReload(o) THEN MaxWindow
                 ELSE window
    /\ expired' = (expired \ Issues(o)) \cup Expires(o)

\* localStorage.setItem("telegram_api_id", ...); setItem("telegram_api_hash", ...)
handleApiSubmitStore(st, fd) ==
    setItem(setItem(st, "telegram_api_id", fd.apiId), "telegram_api_hash", fd.apiHash)

\* setStep("phone")
handleApiSubmitStep(st, fd) == "phone"

handleApiSubmit(apiId, apiHash) ==
    /\ SetupMounted
    /\ step = "api"
    /\ apiId \in Typed("apiId")
    /\ apiHash \in Typed("apiHash")
    /\ formData' = [formData EXCEPT !.apiId = apiId, !.apiHash = apiHash]
    /\ store' = handleApiSubmitStore(store, formData')
    /\ step' = handleApiSubmitStep(step, formData')
    /\ loading' = FALSE
    /\ toast' = "success"
    /\ Tick
    /\ UNCHANGED <<appVars, phoneCodeHash, latest, inflight, timers, reload, expired,
                   call>>

\* the request of a submit handler: of the body of handleCodeSubmit's
\* api.post("/auth/telegram/verify", ...) the field phone_code_hash is kept
SetupRequest(ep) ==
    IF ep = Verify
    THEN [ep |-> ep, auth |-> requestInterceptor(store), caller |-> "Setup",
          phone_code_hash |-> phoneCodeHash]
    ELSE Request(ep, "Setup")

\* the part of a submit handler before its await: setLoading(true); api.post(...)
\* (no handler reads `loading`: only the rendered Button does, so a handler can
\* run while an earlier request of its step is in flight)
SetupSubmit(s, ep, f, v) ==
    /\ SetupMounted
    /\ step = s
    /\ v \in Typed(f)
    /\ CanSend
    /\ formData' = [formData EXCEPT ![f] = v]
    /\ loading' = TRUE
    /\ inflight' = Append(inflight, SetupRequest(ep))
    /\ Tick
    /\ UNCHANGED <<store, appVars, step, phoneCodeHash, latest, timers, reload, toast,
                   expired, call>>

handlePhoneSubmit(phoneNumber) == SetupSubmit("phone", Start, "phoneNumber", phoneNumber)
handleCodeSubmit(code) == SetupSubmit("code", Verify, "code", code)
handlePasswordSubmit(password) == SetupSubmit("password", TwoFA, "password", password)

\* handlePhoneSubmit after the await: the step it sets
handlePhoneSubmitStep(o, st) ==
    IF ~o.ok THEN st
    ELSE IF o.status = "code_sent" THEN "code"
    ELSE IF o.requires_2fa THEN "password"
    ELSE st

\* the code_sent branch without setPhoneCodeHash
handlePhoneSubmitHash_NotStored(o, h) == h

\* handlePhoneSubmit after the await: setPhoneCodeHash
handlePhoneSubmitHash(o, h) ==
    IF o.ok /\ o.status = "code_sent" THEN o.phone_code_hash ELSE h

\* handlePhoneSubmit after the await: the kind of toast it raises last
handlePhoneSubmitToast(o, t) ==
    IF ~o.ok THEN "error"
    ELSE IF o.status = "code_sent" THEN "success"
    ELSE IF o.requires_2fa THEN "info"
    ELSE t

\* setStep("complete") moved out of the try block, so a failure reaches it too
handleCodeSubmitStep_AdvancesOnFailure(o, st) ==
    IF ~o.ok \/ o.status = "authenticated" THEN "complete"
    ELSE IF o.requires_2fa THEN "password"
    ELSE st

\* handleCodeSubmit after the await: the step it sets
handleCodeSubmitStep(o, st) ==
    IF ~o.ok THEN st
    ELSE IF o.status = "authenticated" THEN "complete"
    ELSE IF o.requires_2fa THEN "password"
    ELSE st

\* handleCodeSubmit after the await: the kind of toast it raises last
handleCodeSubmitToast(o, t) ==
    IF ~o.ok THEN "error"
    ELSE IF o.status = "authenticated" THEN "success"
    ELSE IF o.requires_2fa THEN "info"
    ELSE t

\* handlePasswordSubmit after the await: the step it sets
handlePasswordSubmitStep(o, st) ==
    IF o.ok /\ o.status = "authenticated" THEN "complete" ELSE st

\* handlePasswordSubmit after the await: the kind of toast it raises last
handlePasswordSubmitToast(o, t) ==
    IF ~o.ok THEN "error"
    ELSE IF o.status = "authenticated" THEN "success"
    ELSE t

\* setTimeout(() => navigate("/dashboard"), 2000) in the authenticated branches
SchedulesNavigate(ep, o) ==
    ep \in {Verify, TwoFA} /\ o.ok /\ o.status = "authenticated"

SetupStepAfter(ep, o, st) ==
    CASE ep = Start  -> handlePhoneSubmitStep(o, st)
      [] ep = Verify -> handleCodeSubmitStep(o, st)
      [] ep = TwoFA  -> handlePasswordSubmitStep(o, st)

SetupToastAfter(ep, o, t) ==
    CASE ep = Start  -> handlePhoneSubmitToast(o, t)
      [] ep = Verify -> handleCodeSubmitToast(o, t)
      [] ep = TwoFA  -> handlePasswordSubmitToast(o, t)

\* the start requests of the mounted Setup that were sent before the request
\* at position i and are still awaited
StartsBefore(i) ==
    Cardinality({j \in 1..(i - 1) : inflight[j].caller = "Setup" /\ inflight[j].ep = Start})

\* `latest` once the request at position i is answered with o: a start call
\* sent before the latest one answered "code_sent" is one awaited call less;
\* a later start call answered "code_sent" becomes the latest
latestAfter(i, o) ==
    IF inflight[i].ep /= Start THEN latest
    ELSE IF StartsBefore(i) < latest.older THEN [latest EXCEPT !.older = @ - 1]
    ELSE IF o.ok /\ o.status = "code_sent"
         THEN [hash |-> o.phone_code_hash, older |-> StartsBefore(i)]
    ELSE latest

\* setLoading(false) moved from the finally block to the end of the try block
handlerFinally_OnSuccessOnly(o, l) == IF o.ok THEN FALSE ELSE l

\* the finally block of a submit handler: setLoading(false), whatever the
\* outcome
handlerFinally(o, l) == FALSE

SetupAnswers(ep) == IF ep = Start THEN StartAnswers ELSE SetupVerifyAnswers

\* the answer to the request at position i reaches the page: the response
\* interceptor, then the handler's code after the await, its catch and its
\* finally.  A handler whose Setup instance is gone sets no state.
SetupReturn(i, o) ==
    /\ i \in DOMAIN inflight
    /\ inflight[i].caller \in {"Setup", "Unmounted"}
    /\ o \in SetupAnswers(inflight[i].ep)
    /\ LET r == inflight[i] IN
        /\ inflight' = Remove(inflight, i)
        /\ store' = IF o.ok THEN store ELSE responseErrorStore(store, o)
        /\ Intercepted(o)
        /\ toast' = SetupToastAfter(r.ep, o, toast)
        /\ timers' = IF SchedulesNavigate(r.ep, o) THEN timers + 1 ELSE timers
        /\ IF r.caller = "Setup"
           THEN /\ step' = SetupStepAfter(r.ep, o, step)
                /\ phoneCodeHash' = IF r.ep = Start
                                    THEN handlePhoneSubmitHash(o, phoneCodeHash)
                                    ELSE phoneCodeHash
                /\ latest' = latestAfter(i, o)
                /\ loading' = handlerFinally(o, loading)
                /\ UNCHANGED formData
           ELSE UNCHANGED setupVars
        /\ UNCHANGED <<appVars, call>>

-----------------------------------------------------------------------------
(* services/authService.ts and the domain services *)

\* the endpoints of the service methods that do nothing after their await but
\* return the body, such as channelService.getAll
PlainEndpoints == DomainEndpoints

\* a service method up to its await
ServiceCall(ep) ==
    /\ ep \in PlainEndpoints \cup {Verify, TwoFA}
    /\ CanSend
    /\ inflight' = Append(inflight, Request(ep, "Service"))
    /\ Tick
    /\ UNCHANGED <<store, appVars, setupVars, timers, reload, toast, expired,
                   call>>

\* AuthService.verifyCode after the await: localStorage afterwards
verifyCodeStore(st, o) ==
    IF o.status = "authenticated" /\ o.user_id /= 0 /\ o.authorization /= <<>>
    THEN setItem(st, "auth_token", ReplaceFirst(o.authorization, BearerPrefix))
    ELSE st

\* verify2FA without the test of the status
verify2FAStore_AnyStatus(st, o) ==
    IF o.authorization /= <<>>
    THEN setItem(st, "auth_token", ReplaceFirst(o.authorization, BearerPrefix))
    ELSE st

\* AuthService.verify2FA after the await: localStorage afterwards
verify2FAStore(st, o) ==
    IF o.status = "authenticated" /\ o.authorization /= <<>>
    THEN setItem(st, "auth_token", ReplaceFirst(o.authorization, BearerPrefix))
    ELSE st

\* clearAuthData without the removal of telegram_api_hash
clearAuthData_KeepsHash(st) ==
    removeItem(removeItem(removeItem(st, "auth_token"), "telegram_api_id"), "user_data")

\* AuthService.clearAuthData: localStorage afterwards
clearAuthData(st) ==
    removeItem(removeItem(removeItem(removeItem(st, "auth_token"), "telegram_api_id"),
                          "telegram_api_hash"), "user_data")

\* AuthService.logout for the answer o to its api.post("/auth/logout"): a
\* failure passes the response interceptor and is thrown at the await, so
\* clearAuthData runs for a 2xx answer only
logout(st, o) == IF o.ok THEN clearAuthData(st) ELSE responseErrorStore(st, o)

ServiceStoreAfter(ep, st, o) ==
    CASE ~o.ok       -> responseErrorStore(st, o)
      [] ep = Verify -> verifyCodeStore(st, o)
      [] ep = TwoFA  -> verify2FAStore(st, o)
      [] OTHER       -> st

ServiceAnswers(ep) ==
    IF ep \in {Verify, TwoFA} THEN ServiceVerifyAnswers
    ELSE {[ok |-> TRUE]} \cup Failures

\* the answer to a service method's request: the response interceptor, then
\* the method's code after the await (a failure is rethrown to the caller)
ServiceReturn(i, o) ==
    /\ i \in DOMAIN inflight
    /\ inflight[i].caller = "Service"
    /\ o \in ServiceAnswers(inflight[i].ep)
    /\ inflight' = Remove(inflight, i)
    /\ store' = ServiceStoreAfter(inflight[i].ep, store, o)
    /\ Intercepted(o)
    /\ toast' = IF o.ok THEN toast ELSE responseErrorKind(o, toast)
    /\ UNCHANGED <<appVars, setupVars, timers, call>>

\* AuthService.storeApiCredentials
storeApiCredentials(apiId, apiHash) ==
    /\ apiId \in FieldValues.apiId
    /\ apiHash \in FieldValues.apiHash
    /\ store' = setItem(setItem(store, "telegram_api_id", apiId), "telegram_api_hash", apiHash)
    /\ Tick
    /\ UNCHANGED <<appVars, setupVars, inflight, timers, reload, toast, expired,
                   call>>

-----------------------------------------------------------------------------
(* App.tsx: checkAuth, the timer's navigate, and the page load *)

\* what fetch("/api/system/status") can end with: a status, 0 for a rejection
ProbeAnswers == {0, 200, 401, 500}

\* checkAuth after `await fetch(...)`: setIsAuthenticated
checkAuthAfter(status, auth) ==
    IF status = 0 THEN FALSE
    ELSE IF status >= 200 /\ status <= 299 THEN TRUE
    ELSE auth

\* the location changes to p: the routes redirect, and a Setup that leaves the
\* screen or is mounted anew starts from its initial state
Navigate(p, auth, remount) ==
    /\ isAuthenticated' = auth
    /\ path' = Routes(p, auth)
    /\ IF SetupMounted /\ (remount \/ Routes(p, auth) /= "/setup")
       THEN SetupFresh /\ inflight' = Orphaned(inflight)
       ELSE UNCHANGED <<setupVars, inflight>>

checkAuthReturn(status) ==
    /\ checkAuth = "pending"
    /\ status \in ProbeAnswers
    /\ checkAuth' = "done"
    /\ Navigate(path, checkAuthAfter(status, isAuthenticated), FALSE)
    /\ Tick
    /\ UNCHANGED <<store, timers, reload, toast, expired, call>>

\* the timer of an authenticated branch fires: navigate("/dashboard"); without
\* isAuthenticated the route renders <Navigate to="/setup" />, which mounts a
\* new Setup
TimerFires ==
    /\ timers > 0
    /\ timers' = timers - 1
    /\ Navigate("/dashboard", isAuthenticated, TRUE)
    /\ Tick
    /\ UNCHANGED <<store, checkAuth, reload, toast, expired, call>>

\* components/layout/Header.tsx, handleLogout without an onLogout prop (no
\* page passes one): the pages that render Header are shown only with
\* isAuthenticated, and navigate("/setup") is then redirected by the routes
HeaderLogoutStore(st) == removeItem(st, "auth_token")

HeaderLogout ==
    /\ isAuthenticated
    /\ path \in {"/dashboard", "/channels", "/keywords"}
    /\ store' = HeaderLogoutStore(store)
    /\ Navigate("/setup", isAuthenticated, FALSE)
    /\ Tick
    /\ UNCHANGED <<checkAuth, timers, reload, toast, expired, call>>

\* components/layout/Sidebar.tsx, handleLogout: App renders Sidebar only with
\* isAuthenticated
SidebarLogoutStore(st) == removeItem(st, "auth_token")

SidebarLogout ==
    /\ isAuthenticated
    /\ reload /= "none" => window > 0
    /\ store' = SidebarLogoutStore(store)
    /\ reload' = IF reload = "none" THEN "logout" ELSE reload
    /\ window' = IF reload = "none" THEN MaxWindow ELSE window - 1
    /\ UNCHANGED <<appVars, setupVars, inflight, timers, toast, expired, call>>

\* the page load that window.location.href = "/setup" started: every
\* component starts anew, localStorage persists, checkAuth runs up to its
\* await (or sets isAuthenticated when a token is stored)
PageLoad ==
    /\ reload /= "none"
    /\ reload' = "none"
    /\ window' = 0
    /\ isAuthenticated' = truthyItem(store, "auth_token")
    /\ path' = Routes("/setup", truthyItem(store, "auth_token"))
    /\ checkAuth' = IF truthyItem(store, "auth_token") THEN "done" ELSE "pending"
    /\ SetupFresh
    /\ inflight' = <<>>
    /\ timers' = 0
    /\ toast' = "none"
    /\ UNCHANGED <<store, expired, call>>

-----------------------------------------------------------------------------
(* Functions called on their own, on any store contents and any answer *)

StoreKeys == {"auth_token", "telegram_api_id", "telegram_api_hash", "user_data"}
StoreValues == {<<"a">>, <<"b">>, <<"c">>}
AllStores == UNION {[K -> StoreValues] : K \in SUBSET StoreKeys}

\* the operations that clear the session
ClearingOps == {"clearAuthData", "case 401", "Header.handleLogout", "Sidebar.handleLogout"}

\* localStorage after the clearing operation op
ClearingStore(op, st) ==
    CASE op = "clearAuthData"        -> clearAuthData(st)
      [] op = "case 401"             -> responseErrorStore(st, [ok |-> FALSE, status |-> 401])
      [] op = "Header.handleLogout"  -> HeaderLogoutStore(st)
      [] op = "Sidebar.handleLogout" -> SidebarLogoutStore(st)

\* what POST /auth/logout can end with
LogoutAnswers == {[ok |-> TRUE]} \cup Failures

\* the phone numbers tried: a prefix, a first digit, n more characters of one
\* kind, a suffix
PhoneInputs ==
    {pre \o <<d>> \o Rep(c, n) \o post :
        pre \in {<<>>, <<"+">>, <<"+", "+">>, <<" ", "+">>},
        d \in {"0", "1", "9"},
        c \in {"0", "7", "a"},
        n \in 0..(MaxDigits - 1),
        post \in {<<>>, <<"\n">>, <<" ">>}}

ApiIdInputs ==
    {Rep(c, n) \o post :
        c \in {"0", "1", "a", "-"}, n \in 0..3, post \in {<<>>, <<" ">>, <<"x">>, <<"9">>}}

ApiHashInputs ==
    {Rep(c, n) \o post :
        c \in {"a", "f", "0", "9", "g", "A"},
        n \in {0} \cup (MaxHash - 3)..MaxHash,
        post \in {<<>>, <<"G">>, <<"b">>}}

UsernameInputs ==
    {pre \o Rep(c, n) \o post :
        pre \in {<<>>, <<"@">>, <<"@", "@">>},
        c \in {"a", "Z", "5", "_", "-", " "},
        n \in 0..(MaxName - 1),
        post \in {<<>>, <<".">>, <<"q">>}}

\* the keywords tried: whitespace, n characters of which the second may be a
\* space, whitespace
KeywordInputs ==
    {lead \o [i \in 1..n |-> IF i = 2 /\ n > 2 THEN inner ELSE "k"] \o trail :
        lead \in {<<>>, <<" ">>, <<"\t", " ">>},
        inner \in {"k", " "},
        n \in 0..MaxKeyword,
        trail \in {<<>>, <<" ">>, <<"\r", "\n">>}}

Validators ==
    {"validatePhoneNumber", "validateApiCredentials", "validateChannelUsername",
     "validateKeyword"}

ValidatorInputs(op) ==
    CASE op = "validatePhoneNumber"     -> PhoneInputs
      [] op = "validateApiCredentials"  -> ApiIdInputs \X ApiHashInputs
      [] op = "validateChannelUsername" -> UsernameInputs
      [] op = "validateKeyword"         -> KeywordInputs

\* pages/Channels.tsx, handleAddChannel: whether it reaches
\* api.post("/channels", { username: newChannelUsername })
handleAddChannel(newChannelUsername) ==
    newChannelUsername /= <<>> /\ newChannelUsername[1] = "@"

\* pages/Keywords.tsx, handleAddKeyword: whether it reaches
\* api.post("/keywords", { ..., word: newKeyword, ... })
handleAddKeyword(newKeyword) == trim(newKeyword) /= <<>>

Calls ==
    {[op |-> op, arg |-> st, out |-> st, n |-> 0] : op \in ClearingOps, st \in AllStores}
    \cup {[op |-> "logout", arg |-> st, answer |-> o, out |-> st, n |-> 0] :
             st \in AllStores, o \in LogoutAnswers}
    \cup {[op |-> "responseError", arg |-> o, out |-> <<>>, n |-> 0] : o \in FailureBodies}
    \cup UNION {{[op |-> op, arg |-> x, out |-> FALSE, n |-> 0] : x \in ValidatorInputs(op)} :
                  op \in Validators}
    \cup {[op |-> "handleAddChannel", arg |-> x, out |-> FALSE, n |-> 0] :
             x \in UsernameInputs}
    \cup {[op |-> "handleAddKeyword", arg |-> x, out |-> FALSE, n |-> 0] :
             x \in KeywordInputs}

InitCall == InitPage /\ call \in Calls

\* a clearing operation runs on the store the call before it left
ClearingCall ==
    /\ call.op \in ClearingOps
    /\ call.n < MaxCalls
    /\ call' = [call EXCEPT !.out = ClearingStore(call.op, call.out), !.n = call.n + 1]
    /\ UNCHANGED pageVars

\* AuthService.logout runs and its request is answered
logoutCall ==
    /\ call.op = "logout"
    /\ call.n = 0
    /\ call' = [call EXCEPT !.out = logout(call.arg, call.answer), !.n = 1]
    /\ UNCHANGED pageVars

\* the response interceptor's error handler runs on a failure
responseErrorCall ==
    /\ call.op = "responseError"
    /\ call.n = 0
    /\ call' = [call EXCEPT !.out = [case |-> responseErrorCase(call.arg),
                                     toasts |-> responseErrorToast(call.arg),
                                     settles |-> responseErrorSettles(call.arg)],
                            !.n = 1]
    /\ UNCHANGED pageVars

validatePhoneNumberCall ==
    /\ call.op = "validatePhoneNumber"
    /\ call.n = 0
    /\ call' = [call EXCEPT !.out = validatePhoneNumber(call.arg), !.n = 1]
    /\ UNCHANGED pageVars

validateApiCredentialsCall ==
    /\ call.op = "validateApiCredentials"
    /\ call.n = 0
    /\ call' = [call EXCEPT !.out = validateApiCredentials(call.arg[1], call.arg[2]),
                            !.n = 1]
    /\ UNCHANGED pageVars

validateChannelUsernameCall ==
    /\ call.op = "validateChannelUsername"
    /\ call.n = 0
    /\ call' = [call EXCEPT !.out = validateChannelUsername(call.arg), !.n = 1]
    /\ UNCHANGED pageVars

validateKeywordCall ==
    /\ call.op = "validateKeyword"
    /\ call.n = 0
    /\ call' = [call EXCEPT !.out = validateKeyword(call.arg), !.n = 1]
    /\ UNCHANGED pageVars

\* an add handler of the Channels or Keywords page runs on its input; `out`
\* tells whether it issued its POST
handleAddCall ==
    /\ call.op \in {"handleAddChannel", "handleAddKeyword"}
    /\ call.n = 0
    /\ call' = [call EXCEPT !.out = IF call.op = "handleAddChannel"
                                    THEN handleAddChannel(call.arg)
                                    ELSE handleAddKeyword(call.arg),
                            !.n = 1]
    /\ UNCHANGED pageVars

CallNext ==
    \/ ClearingCall
    \/ logoutCall
    \/ responseErrorCall
    \/ validatePhoneNumberCall
    \/ validateApiCredentialsCall
    \/ validateChannelUsernameCall
    \/ validateKeywordCall
    \/ handleAddCall

CallSpec == InitCall /\ [][CallNext]_vars

-----------------------------------------------------------------------------

SubmitApi ==
    \E a \in Typed("apiId") : \E h \in Typed("apiHash") : handleApiSubmit(a, h)
SubmitPhone == \E v \in Typed("phoneNumber") : handlePhoneSubmit(v)
SubmitCode == \E v \in Typed("code") : handleCodeSubmit(v)
SubmitPassword == \E v \in Typed("password") : handlePasswordSubmit(v)
SetupAnswered ==
    \E i \in DOMAIN inflight : \E o \in StartAnswers \cup SetupVerifyAnswers :
        SetupReturn(i, o)
ServiceCalled == \E ep \in PlainEndpoints \cup {Verify, TwoFA} : ServiceCall(ep)
ServiceAnswered ==
    \E i \in DOMAIN inflight :
        \E o \in ServiceVerifyAnswers \cup {[ok |-> TRUE]} \cup Failures :
            ServiceReturn(i, o)
CredentialsStored ==
    \E a \in FieldValues.apiId : \E h \in FieldValues.apiHash :
        storeApiCredentials(a, h)
ProbeAnswered == \E s \in ProbeAnswers : checkAuthReturn(s)

Next ==
    \/ SubmitApi
    \/ SubmitPhone
    \/ SubmitCode
    \/ SubmitPassword
    \/ SetupAnswered
    \/ ServiceCalled
    \/ ServiceAnswered
    \/ CredentialsStored
    \/ ProbeAnswered
    \/ HeaderLogout
    \/ SidebarLogout
    \/ TimerFires
    \/ PageLoad

Spec == Init /\ [][Next]_vars

-----------------------------------------------------------------------------
(* utils/validators.ts, debounceValidation(func, wait): the wrapper it       *)
(* returns, on a clock of whole ticks.  `call` holds the closure's timeout   *)
(* (set, when due, with which args) and the log of the calls of the wrapper  *)
(* and the invocations of func.  A timer fires when due or later.            *)

\* setTimeout(..., wait) set at `now` without the delay
setTimeoutDue_NoDelay(now, wait) == now

\* setTimeout(..., wait) set at `now`: the earliest tick at which it fires
setTimeoutDue(now, wait) == now + wait

InitDebounce ==
    /\ InitPage
    /\ \E w \in {1, 2} :
          call = [op |-> "debounceValidation", wait |-> w, now |-> 0,
                  timeout |-> [set |-> FALSE, due |-> 0, args |-> "a"], log |-> <<>>]

\* the wrapper is called: clearTimeout(timeout); timeout = setTimeout(...)
debounced(args) ==
    /\ Cardinality({k \in DOMAIN call.log : call.log[k].kind = "call"}) < MaxBurst
    /\ setTimeoutDue(call.now, call.wait) <= MaxTime
    /\ call' = [call EXCEPT
                  !.timeout = [set |-> TRUE, due |-> setTimeoutDue(call.now, call.wait),
                               args |-> args],
                  !.log = Append(@, [kind |-> "call", at |-> call.now, args |-> args])]
    /\ UNCHANGED pageVars

\* the timer fires: () => func(...args)
timeoutFires ==
    /\ call.timeout.set
    /\ call.now >= call.timeout.due
    /\ call' = [call EXCEPT
                  !.timeout.set = FALSE,
                  !.log = Append(@, [kind |-> "func", at |-> call.now,
                                     args |-> call.timeout.args])]
    /\ UNCHANGED pageVars

\* the clock ticks
timePasses ==
    /\ call.now < MaxTime
    /\ call' = [call EXCEPT !.now = @ + 1]
    /\ UNCHANGED pageVars

debouncedCalled == \E args \in {"a", "b"} : debounced(args)

DebounceNext ==
    \/ debouncedCalled
    \/ timeoutFires
    \/ timePasses

\* the clock runs on, and the event loop runs a timer that is due
DebounceSpec ==
    InitDebounce /\ [][DebounceNext]_vars /\ WF_vars(timePasses) /\ WF_vars(timeoutFires)

\* The Setup page on its own.  Every request ends (a response, or the error
\* of the api instance's 10 s timeout), so the continuation of a handler
\* runs at last; so does a page load once window.location.href is assigned.
SetupNext ==
    \/ SubmitApi
    \/ SubmitPhone
    \/ SubmitCode
    \/ SubmitPassword
    \/ SetupAnswered
    \/ TimerFires
    \/ PageLoad

LiveSpec ==
    Init /\ [][SetupNext]_vars /\ WF_vars(SetupAnswered) /\ WF_vars(PageLoad)

-----------------------------------------------------------------------------
(* The login state machine as the page shows it *)

CredentialsPending == SetupMounted /\ step = "api"
PhonePending == SetupMounted /\ step = "phone"
CodePending == SetupMounted /\ step = "code"
PasswordPending == SetupMounted /\ step = "password"
Authenticated == isAuthenticated \/ (SetupMounted /\ step = "complete")

HasToken == truthyItem(store, "auth_token")

\* the answer o to the request at position i, sent by the mounted Setup from
\* endpoint ep, is handled in this step
SetupHandles(i, o, ep) ==
    /\ i \in DOMAIN inflight
    /\ inflight[i].ep = ep
    /\ inflight[i].caller = "Setup"
    /\ SetupReturn(i, o)

\* a response with status 401 passes the response interceptor in this step
Intercepts401 ==
    \E i \in DOMAIN inflight :
        SetupReturn(i, [ok |-> FALSE, status |-> 401])
        \/ ServiceReturn(i, [ok |-> FALSE, status |-> 401])

-----------------------------------------------------------------------------
(* C1: the machine starts in CredentialsPending; a valid credential        *)
(* submission puts it in PhonePending; and once it has left                *)
(* CredentialsPending it returns there only as the result of a 401 (the    *)
(* page load that the response interceptor's 401 branch starts); the page  *)
(* load of an explicit logout is not counted as a regression.              *)
C1_RegressOnlyOnExpiry ==
    /\ CredentialsPending
    /\ [][/\ \A a \in FieldValues.apiId : \A h \in FieldValues.apiHash :
                (handleApiSubmit(a, h) /\ validateApiCredentials(a, h)) => PhonePending'
          /\ (~CredentialsPending /\ CredentialsPending')
                => reload \in {"expired", "logout"}]_vars

(* C2: a submission whose input fails the validator of its step is         *)
(* rejected synchronously: no request is issued, nothing is written to the *)
(* store and the step is unchanged.                                        *)
C2_InvalidSubmitRejected ==
    [][/\ \A a \in FieldValues.apiId : \A h \in FieldValues.apiHash :
            (handleApiSubmit(a, h) /\ ~validateApiCredentials(a, h))
                => UNCHANGED <<store, step, inflight>>
       /\ \A v \in FieldValues.phoneNumber :
            (handlePhoneSubmit(v) /\ ~validatePhoneNumber(<<"+">> \o v))
                => UNCHANGED <<store, step, inflight>>
       /\ \A v \in FieldValues.code :
            (handleCodeSubmit(v) /\ v = <<>>) => UNCHANGED <<store, step, inflight>>
       /\ \A v \in FieldValues.password :
            (handlePasswordSubmit(v) /\ v = <<>>) => UNCHANGED <<store, step, inflight>>]_vars

(* C3: whenever API credentials are in the store, the id is all digits and *)
(* the hash is 32 lowercase hex characters.                                *)
C3_StoredCredentialsValid ==
    (hasItem(store, "telegram_api_id") /\ hasItem(store, "telegram_api_hash"))
        => validateApiCredentials(store["telegram_api_id"], store["telegram_api_hash"])

C5_AuthenticatedStoresToken ==
    [][\A i \in DOMAIN inflight : \A o \in SetupVerifyAnswers :
        (CodePending /\ SetupHandles(i, o, Verify) /\ o.ok /\ o.status = "authenticated")
            => (Authenticated' /\ HasToken')]_vars

(* C6: a failure other than a 401 (no response, 4xx, 429, 5xx) of the      *)
(* phone, code or password request leaves the machine in its step, creates *)
(* no session token, shows an error, and leaves the step free to be        *)
(* submitted again (the page is still shown and its button is enabled).    *)
C6_FailureKeepsStep ==
    [][\A i \in DOMAIN inflight : \A o \in Failures : \A ep \in {Start, Verify, TwoFA} :
        (SetupHandles(i, o, ep) /\ o.status /= 401) =>
            /\ step' = step
            /\ SetupMounted'
            /\ store' = store
            /\ toast' = "error"
            /\ ~loading']_vars

C6_Witness ==
    /\ CodePending
    /\ formData.code /= <<>>
    /\ toast = "error"
    /\ ~loading
    /\ inflight = <<>>
    /\ reload = "none"
    /\ ~HasToken

(* C7: an answer with status "authenticated" to the start request or to    *)
(* the verify request moves the machine directly to Authenticated.         *)
C7_AuthenticatedSkips ==
    [][\A i \in DOMAIN inflight : \A o \in StartAnswers \cup SetupVerifyAnswers :
        \A ep \in {Start, Verify} :
            (SetupHandles(i, o, ep) /\ o.ok /\ o.status = "authenticated")
                => Authenticated']_vars

(* C8: every 401, whichever endpoint or caller it answers (a request of    *)
(* the api instance or App.checkAuth's probe), clears the session token    *)
(* and returns the machine to CredentialsPending (at once, or by the page  *)
(* load it starts).                                                        *)
C8_Any401Resets ==
    [][(Intercepts401 \/ checkAuthReturn(401)) =>
            (~HasToken' /\ (CredentialsPending' \/ reload' = "expired"))]_vars

(* C9: after a 401 has been processed no request issued afterwards carries *)
(* the token it removed: the 401 branch removes the token from the store   *)
(* in the same step, and the header of every later request is computed     *)
(* from the store.                                                         *)
C9_NoStaleToken ==
    [][/\ Intercepts401 => ~hasItem(store', "auth_token")
       /\ Len(inflight') > Len(inflight) =>
            LET r == inflight'[Len(inflight')]
            IN  r.auth = <<>> \/ ReplaceFirst(r.auth, BearerPrefix) \notin expired]_vars

C9_Witness ==
    /\ expired /= {}
    /\ reload = "none"
    /\ \E i \in DOMAIN inflight : inflight[i].auth = <<>>

(* C10: at no time are two requests of the same step outstanding, even     *)
(* when the submit handlers are invoked while one is in flight.            *)
C10_OneInFlightPerStep ==
    \A i, j \in DOMAIN inflight :
        (i /= j /\ inflight[i].caller = "Setup" /\ inflight[j].caller = "Setup")
            => inflight[i].ep /= inflight[j].ep

\* the step whose handler sends to endpoint ep
StepOf(ep) ==
    CASE ep = Start  -> "phone"
      [] ep = Verify -> "code"
      [] ep = TwoFA  -> "password"

\* the request at position i is not the latest one of the current step
Stale(i) ==
    \/ StepOf(inflight[i].ep) /= step
    \/ \E j \in DOMAIN inflight :
          j > i /\ inflight[j].caller = "Setup" /\ inflight[j].ep = inflight[i].ep

HasCredentials == hasItem(store, "telegram_api_id") \/ hasItem(store, "telegram_api_hash")

\* the stored token is removed, created or replaced in this step
TokenChanged ==
    \/ hasItem(store, "auth_token") /= hasItem(store', "auth_token")
    \/ /\ hasItem(store, "auth_token")
       /\ hasItem(store', "auth_token")
       /\ store["auth_token"] /= store'["auth_token"]

\* a verify method of AuthService handles an "authenticated" answer in this step
HandshakeSuccess ==
    \E i \in DOMAIN inflight : \E o \in ServiceVerifyAnswers :
        o.ok /\ o.status = "authenticated" /\ ServiceReturn(i, o)

(* C11: a successful answer to a request that is not the latest one of the *)
(* current step (an earlier request of the step, or a request of a step    *)
(* the machine has left) changes neither the step, nor the handshake id,   *)
(* nor the stored token.                                                   *)
C11_StaleResponseDiscarded ==
    [][\A i \in DOMAIN inflight : \A o \in StartAnswers \cup SetupVerifyAnswers :
        (inflight[i].caller = "Setup" /\ o.ok /\ Stale(i)
            /\ SetupHandles(i, o, inflight[i].ep)) =>
            /\ UNCHANGED <<step, phoneCodeHash>>
            /\ ~TokenChanged]_vars

(* C12: a session token is in the store if and only if the application is  *)
(* in Authenticated.                                                       *)
C12_TokenIffAuthenticated == HasToken <=> Authenticated

(* C13: every clearing operation (clearAuthData, the 401 branch, Header's  *)
(* and Sidebar's handleLogout) leaves the store without the session token, *)
(* the API id and the API hash.                                            *)
C13_ClearingRemovesAll ==
    (call.op \in ClearingOps /\ call.n >= 1) =>
        \A k \in {"auth_token", "telegram_api_id", "telegram_api_hash"} :
            ~hasItem(call.out, k)

(* C14: in every reachable state API credentials are stored if and only if *)
(* a session token is stored.                                              *)
C14_NoDanglingCredentials == HasCredentials <=> hasItem(store, "auth_token")

(* C15: clearAuthData called twice in succession leaves the store as one   *)
(* call does, and that store holds no auth_token, telegram_api_id or       *)
(* telegram_api_hash.                                                      *)
C15_ClearIdempotent ==
    (call.op = "clearAuthData" /\ call.n = 2) =>
        /\ call.out = clearAuthData(call.arg)
        /\ \A k \in {"auth_token", "telegram_api_id", "telegram_api_hash"} :
              ~hasItem(call.out, k)

C15_Witness ==
    /\ call.op = "clearAuthData"
    /\ call.n = 2
    /\ DOMAIN call.arg = StoreKeys
    /\ DOMAIN call.out = {}

(* C16: after logout() has finished, whatever the answer to its POST       *)
(* /auth/logout (success, an error status, no response), the session token *)
(* is absent from the store.                                               *)
C16_LogoutAlwaysClears ==
    (call.op = "logout" /\ call.n = 1) => ~hasItem(call.out, "auth_token")

(* C17: every request sent through the api instance while a token t is     *)
(* stored carries the header "Bearer t" with the token stored at that      *)
(* time, and every request sent while no token is stored carries no        *)
(* Authorization header.                                                   *)
C17_HeaderMatchesStore ==
    [][Len(inflight') > Len(inflight) =>
        LET r == inflight'[Len(inflight')]
        IN  r.auth = IF hasItem(store, "auth_token")
                     THEN BearerPrefix \o store["auth_token"] ELSE <<>>]_vars

C17_Witness ==
    /\ HasToken
    /\ \E i \in DOMAIN inflight : inflight[i].auth = BearerPrefix \o store["auth_token"]
    /\ \E i \in DOMAIN inflight : inflight[i].auth = <<>>

(* C18: the error handler takes exactly one branch, decided by the status  *)
(* alone: no response is the network error, 403 forbidden, 404 not found,  *)
(* 422 with a field-error array reports each "field: message", 429 is the *)
(* rate limit, and a status listed nowhere (not 401, 403, 404, 422, 429 or *)
(* 5xx) is the unexpected failure.                                         *)
C18_Classification ==
    (call.op = "responseError" /\ call.n = 1) =>
        LET o == call.arg
            c == call.out.case
            t == call.out.toasts
        IN  /\ \A b \in FailureBodies : b.status = o.status => responseErrorCase(b) = c
            /\ o.status = 0 =>
                 c = "else" /\ t = <<"Network error. Please check your connection.">>
            /\ o.status = 403 => c = "case 403" /\ t = <<"Access forbidden">>
            /\ o.status = 404 => c = "case 404" /\ t = <<"Resource not found">>
            /\ (o.status = 422 /\ o.hasErrors) => c = "case 422" /\ t = o.errors
            /\ o.status = 429 =>
                 c = "case 429" /\ t = <<"Too many requests. Please wait.">>
            /\ (o.status \notin {0, 401, 403, 404, 422, 429} \cup 500..599) =>
                 /\ c = "default"
                 /\ t = <<IF o.detail /= "" THEN o.detail
                          ELSE "An unexpected error occurred">>

C18_Witness ==
    /\ call.op = "responseError"
    /\ call.n = 1
    /\ call.arg.status = 422
    /\ call.out.toasts = <<"phone_number: invalid", "code: invalid">>

(* C19: every status from 500 through 599 takes the server-error branch,   *)
(* never the branch of the unexpected failure.                             *)
C19_All5xxServerError ==
    (call.op = "responseError" /\ call.n = 1 /\ call.arg.status \in 500..599) =>
        /\ call.out.case = "case 500"
        /\ call.out.toasts = <<"Server error. Please try again later.">>

(* C20: the stored session token is removed, created or replaced only by   *)
(* the 401 branch of the response interceptor or by a handshake success:   *)
(* no page, header, sidebar or service does it on its own.                 *)
C20_OnlyGatewayClearsToken ==
    [][TokenChanged => (Intercepts401 \/ HandshakeSuccess)]_vars

\* App.tsx, checkAuth: the request of `await fetch("/api/system/status")`,
\* made with the browser's fetch and not with the api instance, so neither
\* interceptor sees it
checkAuthFetch == [ep |-> "/api/system/status", via |-> "fetch", auth |-> <<>>]

\* the requests that wait for their answer, each with the client that sent it
Outstanding ==
    {[ep |-> inflight[i].ep, via |-> "api", auth |-> inflight[i].auth] :
        i \in DOMAIN inflight}
    \cup (IF checkAuth = "pending" THEN {checkAuthFetch} ELSE {})

(* C21: every request the application has outstanding was sent through the *)
(* api instance with its interceptors: no component sends one around it.   *)
C21_SingleGateway == \A r \in Outstanding : r.via = "api"

\* a submit handler or a service method sends its request in this step
Sends == SubmitPhone \/ SubmitCode \/ SubmitPassword \/ ServiceCalled

(* C22: no classified failure triggers an automatic retry: the requests    *)
(* awaited change only in four ways: a submission or a service call adds   *)
(* exactly one request; an answer (success or classified failure) takes    *)
(* its request away and adds none; a Setup that leaves the screen orphans  *)
(* its requests; a page load drops them.  A further request therefore      *)
(* needs a further submission or call.                                     *)
C22_NoAutomaticRetry ==
    [][inflight' /= inflight =>
        \/ \E i \in DOMAIN inflight :
              inflight' = SubSeq(inflight, 1, i - 1)
                            \o SubSeq(inflight, i + 1, Len(inflight))
        \/ inflight' = Orphaned(inflight)
        \/ PageLoad
        \/ /\ Len(inflight') = Len(inflight) + 1
           /\ SubSeq(inflight', 1, Len(inflight)) = inflight
           /\ Sends]_vars

C22_Witness ==
    /\ PhonePending
    /\ formData.phoneNumber /= <<>>
    /\ toast = "error"
    /\ inflight = <<>>
    /\ timers = 0
    /\ reload = "none"

(* C23: validatePhoneNumber(s) is true exactly when s is a "+", then a     *)
(* digit from 1 to 9, then 10 to 14 more digits, and nothing else.         *)
C23_PhoneNumberPattern ==
    (call.op = "validatePhoneNumber" /\ call.n = 1) =>
        LET s == call.arg
        IN  call.out <=>
              /\ Len(s) \in 12..16
              /\ s[1] = "+"
              /\ s[2] \in {"1", "2", "3", "4", "5", "6", "7", "8", "9"}
              /\ \A i \in 3..Len(s) : s[i] \in Digits

C23_Witness ==
    /\ call.op = "validatePhoneNumber"
    /\ call.n = 1
    /\ call.out
    /\ Len(call.arg) = 16

(* C24: validateApiCredentials(apiId, apiHash) is true exactly when apiId  *)
(* is one or more digits and nothing else, and apiHash is exactly 32       *)
(* characters, each a digit or a letter from a to f in lower case.         *)
C24_ApiCredentialsPattern ==
    (call.op = "validateApiCredentials" /\ call.n = 1) =>
        LET apiId == call.arg[1]
            apiHash == call.arg[2]
        IN  call.out <=>
              /\ apiId /= <<>>
              /\ \A i \in DOMAIN apiId : apiId[i] \in Digits
              /\ Len(apiHash) = 32
              /\ \A i \in DOMAIN apiHash : apiHash[i] \in HexLower

C24_Witness ==
    /\ call.op = "validateApiCredentials"
    /\ call.n = 1
    /\ call.out
    /\ call.arg[2][1] = "f"
    /\ call.arg[2][32] = "b"

(* C25: validateChannelUsername(u) is true exactly when u is an "@"        *)
(* followed by 5 to 32 characters, each a letter, a digit or an            *)
(* underscore, and nothing else.                                           *)
C25_ChannelUsernamePattern ==
    (call.op = "validateChannelUsername" /\ call.n = 1) =>
        LET u == call.arg
        IN  call.out <=>
              /\ Len(u) \in 6..33
              /\ u[1] = "@"
              /\ \A i \in 2..Len(u) : u[i] \in Lower \cup Upper \cup Digits \cup {"_"}

C25_Witness ==
    /\ call.op = "validateChannelUsername"
    /\ call.n = 1
    /\ call.out
    /\ Len(call.arg) = 6
    /\ call.arg[2] = "_"

(* C26: validateKeyword(k) is true exactly when k, with the whitespace at  *)
(* its two ends left out, has between 1 and 100 characters inclusive.      *)
C26_KeywordLength ==
    (call.op = "validateKeyword" /\ call.n = 1) =>
        LET k == call.arg
        IN  call.out <=>
              \E a \in DOMAIN k : \E b \in a..Len(k) :
                  /\ k[a] \notin Whitespace
                  /\ k[b] \notin Whitespace
                  /\ \A i \in 1..(a - 1) : k[i] \in Whitespace
                  /\ \A i \in (b + 1)..Len(k) : k[i] \in Whitespace
                  /\ b - a + 1 \in 1..100

C26_Witness ==
    /\ call.op = "validateKeyword"
    /\ call.n = 1
    /\ call.out
    /\ Len(call.arg) > 100
    /\ Len(trim(call.arg)) = 100

(* C27: in CodePending a verify answer with status "2fa_required" moves    *)
(* the machine to PasswordPending and one with status "authenticated"      *)
(* moves it to Authenticated: the reported status decides the branch.      *)
C27_CodeAnswerBranches ==
    [][\A i \in DOMAIN inflight : \A o \in SetupVerifyAnswers :
        (CodePending /\ SetupHandles(i, o, Verify) /\ o.ok) =>
            /\ o.status = "2fa_required" => PasswordPending'
            /\ o.status = "authenticated" => Authenticated']_vars

(* C28: in PasswordPending an answer with status "authenticated" moves the *)
(* machine to Authenticated; every other outcome (a failure, or a success  *)
(* with another status) leaves it in PasswordPending and shows an error,   *)
(* one that the handling of this answer raises.                            *)
C28_PasswordAnswerBranches ==
    [][\A i \in DOMAIN inflight : \A o \in SetupVerifyAnswers :
        (PasswordPending /\ SetupHandles(i, o, TwoFA)) =>
            IF o.ok /\ o.status = "authenticated"
            THEN Authenticated'
            ELSE /\ PasswordPending'
                 /\ toast' = "error"
                 /\ handlePasswordSubmitToast(o, "none") = "error"]_vars

\* handleCodeSubmit sends its verify request in this step
SendsVerify ==
    /\ Len(inflight') = Len(inflight) + 1
    /\ inflight'[Len(inflight')].caller = "Setup"
    /\ inflight'[Len(inflight')].ep = Verify

\* a start answer with status "code_sent" is handled by the mounted Setup in
\* this step
StartSucceeds ==
    \E i \in DOMAIN inflight : \E o \in StartAnswers :
        o.ok /\ o.status = "code_sent" /\ SetupHandles(i, o, Start)

(* C29: the handshake id is set only by a successful start answer, and     *)
(* every verify request carries the id returned by the most recent start   *)
(* call of the current handshake that succeeded: never an empty id, never  *)
(* the id of an older call.                                                *)
C29_VerifyCarriesLatestHash ==
    [][/\ (phoneCodeHash' /= phoneCodeHash /\ phoneCodeHash' /= "") => StartSucceeds
       /\ SendsVerify =>
            /\ inflight'[Len(inflight')].phone_code_hash /= ""
            /\ inflight'[Len(inflight')].phone_code_hash = latest.hash]_vars

\* the data of the login attempt: phone number, handshake id, code, password
LoginAttempt == <<formData.phoneNumber, phoneCodeHash, formData.code, formData.password>>

\* the handshake ends in this step: the machine reaches Authenticated, or a
\* 401 resets it (the 401 branch assigns window.location.href)
TerminalTransition ==
    \/ ~Authenticated /\ Authenticated'
    \/ reload /= "expired" /\ reload' = "expired"

(* C30: on every terminal transition (Authenticated is reached, or a 401   *)
(* resets the machine) the data of the login attempt is discarded, and no  *)
(* verify request is sent from a handshake that has finished or was reset. *)
C30_AttemptDiscarded ==
    [][/\ TerminalTransition => LoginAttempt' = <<<<>>, "", <<>>, <<>>>>
       /\ SendsVerify => (step /= "complete" /\ reload /= "expired")]_vars

(* C31: adding a channel whose handle fails validateChannelUsername, or a  *)
(* keyword that fails validateKeyword, issues no POST request.             *)
C31_InvalidAddIssuesNoPost ==
    /\ (call.op = "handleAddChannel" /\ call.n = 1
            /\ ~validateChannelUsername(call.arg)) => ~call.out
    /\ (call.op = "handleAddKeyword" /\ call.n = 1
            /\ ~validateKeyword(call.arg)) => ~call.out

(* C32: whenever verifyCode or verify2FA is answered with status           *)
(* "authenticated" and a token, the token is in the store afterwards,      *)
(* whatever the answer's user_id (absent or 0 included).                   *)
C32_TokenStoredWithoutUserId ==
    [][\A i \in DOMAIN inflight : \A o \in ServiceVerifyAnswers :
        (inflight[i].caller = "Service" /\ inflight[i].ep \in {Verify, TwoFA}
            /\ o.ok /\ o.status = "authenticated" /\ o.authorization /= <<>>
            /\ ServiceReturn(i, o)) =>
            /\ hasItem(store', "auth_token")
            /\ BearerPrefix \o store'["auth_token"] = o.authorization]_vars

\* a token is written to the store in this step: one appears, or another
\* value replaces the one stored
TokenWritten ==
    /\ hasItem(store', "auth_token")
    /\ hasItem(store, "auth_token") => store'["auth_token"] /= store["auth_token"]

(* C33: the session token is written to the store only by the handling of  *)
(* a verify-code or verify-2fa answer with status "authenticated": no      *)
(* answer with status "code_sent" or "2fa_required" and no failure ever    *)
(* stores a token.                                                         *)
C33_TokenOnlyFromAuthenticated ==
    [][TokenWritten =>
        /\ HandshakeSuccess
        /\ \A i \in DOMAIN inflight :
             \A o \in StartAnswers \cup SetupVerifyAnswers \cup ServiceVerifyAnswers :
                (~o.ok \/ o.status /= "authenticated") =>
                    /\ ~SetupReturn(i, o)
                    /\ ~ServiceReturn(i, o)]_vars

C33_Witness ==
    /\ hasItem(store, "auth_token")
    /\ store["auth_token"] = Tok(1)
    /\ toast = "none"
    /\ inflight = <<>>

(* C34: once a 401 has cleared the session, a success answer to a verify   *)
(* request that was already in flight when the 401 was processed does not  *)
(* store a token: in the step that follows the 401 directly (every request *)
(* awaited then was sent before it) no token is written.                   *)
C34_NoTokenFromEarlierRequest ==
    [][(reload = "expired" /\ window = MaxWindow) => ~TokenWritten]_vars

(* C35: after a logout action has completed (Header's default logout, or   *)
(* the page load that Sidebar's logout starts) the application is not      *)
(* authenticated and /setup is shown, not redirected back to /dashboard.   *)
C35_LogoutLeavesAuthenticated ==
    [][(HeaderLogout \/ (reload = "logout" /\ PageLoad)) =>
            (~isAuthenticated' /\ path' = "/setup")]_vars

(* C36: every handshake submission eventually releases the in-flight flag: *)
(* whenever loading is true it becomes false again, whether the request    *)
(* succeeds, fails or brings an unrecognised status.                       *)
C36_LoadingReleased == loading ~> ~loading

C36_Witness ==
    /\ PasswordPending
    /\ formData.password /= <<>>
    /\ ~loading
    /\ inflight = <<>>
    /\ toast = "info"

\* the place of a step in the order api, phone, code, password, complete
StepRank(st) ==
    CASE st = "api"      -> 1
      [] st = "phone"    -> 2
      [] st = "code"     -> 3
      [] st = "password" -> 4
      [] st = "complete" -> 5

(* C37: while one Setup is mounted its step only moves forward along api,  *)
(* phone, code, password, complete: no outcome of a submission moves it to *)
(* an earlier step, and "complete" is never left.                          *)
C37_StepOnlyForward ==
    [][/\ \A a \in FieldValues.apiId : \A h \in FieldValues.apiHash :
            handleApiSubmit(a, h) => StepRank(step') >= StepRank(step)
       /\ \A i \in DOMAIN inflight : \A o \in StartAnswers \cup SetupVerifyAnswers :
            (inflight[i].caller = "Setup" /\ SetupHandles(i, o, inflight[i].ep)) =>
                /\ StepRank(step') >= StepRank(step)
                /\ step = "complete" => step' = "complete"]_vars

(* C38: the response interceptor never swallows a failure: for every       *)
(* failed outcome (any error status, or no response) the error handler     *)
(* takes one of its branches and the promise it returns is rejected, so    *)
(* the caller's await throws.                                              *)
C38_FailureAlwaysRejected ==
    (call.op = "responseError" /\ call.n = 1) =>
        /\ call.out.case \in {"else", "case 401", "case 403", "case 404", "case 422",
                             "case 429", "case 500", "default"}
        /\ call.out.settles = "rejected"

C38_Witness ==
    /\ call.op = "responseError"
    /\ call.n = 1
    /\ call.arg.status = 401
    /\ call.out.settles = "rejected"

(* C39: token storage round-trips: when verifyCode or verify2FA is         *)
(* answered "authenticated" with the header "Bearer X", the stored token   *)
(* is X without the prefix, and the Authorization header that the request  *)
(* interceptor attaches afterwards equals the header received.             *)
C39_TokenRoundTrip ==
    [][\A i \in DOMAIN inflight : \A o \in ServiceVerifyAnswers : \A X \in Tokens :
        (inflight[i].caller = "Service" /\ inflight[i].ep \in {Verify, TwoFA}
            /\ o.ok /\ o.status = "authenticated" /\ o.authorization = BearerPrefix \o X
            /\ ServiceReturn(i, o)) =>
            /\ truthyItem(store', "auth_token")
            /\ store'["auth_token"] = X
            /\ requestInterceptor(store') = o.authorization]_vars

(* C40: for the wrapper of debounceValidation(func, wait): func is invoked *)
(* no earlier than wait after the most recent call of the wrapper and with *)
(* that call's arguments; between two calls less than wait apart func is   *)
(* not invoked; and after the last call of a burst func is invoked exactly *)
(* once: while its timer is pending func has not run, the pending timer    *)
(* leads to the invocation, and func does not run again after it.          *)
C40_Debounce ==
    /\ [](LET log == call.log
              IsCall(k) == log[k].kind = "call"
              IsFunc(k) == log[k].kind = "func"
          IN  /\ \A k \in DOMAIN log : IsFunc(k) =>
                    /\ k > 1
                    /\ IsCall(k - 1)
                    /\ log[k].at >= log[k - 1].at + call.wait
                    /\ log[k].args = log[k - 1].args
              /\ \A i, j \in DOMAIN log :
                    (i < j /\ IsCall(i) /\ IsCall(j) /\ log[j].at < log[i].at + call.wait) =>
                        \A k \in (i + 1)..(j - 1) : ~IsFunc(k)
              /\ (log /= <<>> /\ IsCall(Len(log))) => call.timeout.set
              /\ (log /= <<>> /\ IsFunc(Len(log))) => ~call.timeout.set)
    /\ call.timeout.set ~>
          (~call.timeout.set /\ call.log /= <<>> /\ call.log[Len(call.log)].kind = "func")

C40_Witness ==
    /\ Len(call.log) = 4
    /\ call.log[1] = [kind |-> "call", at |-> 0, args |-> "a"]
    /\ call.log[2] = [kind |-> "call", at |-> 1, args |-> "b"]
    /\ call.log[3] = [kind |-> "call", at |-> 2, args |-> "a"]
    /\ call.log[4].kind = "func"
    /\ call.wait = 2

====
